---- MODULE Spec2Model ----
(***************************************************************************)
(* A model of the water-balance accounting engine of the waterbalans       *)
(* package: the Eag class (src/waterbalans/eag.py) and the Gaf class       *)
(* (src/waterbalans/gaf.py).                                               *)
(*                                                                         *)
(* Python objects are records, an OrderedDict is a sequence of records in  *)
(* insertion order, None is the record None, a pandas table is a         *)
(* sequence of rows or a function from column names to columns, and an     *)
(* exception leaving a method is recorded in err / gafErr.                 *)
(***************************************************************************)
EXTENDS Integers, Sequences, FiniteSets, TLC

VARIABLES
    buckets,     \* Eag.buckets: OrderedDict id -> bucket, as a sequence of buckets
    water,       \* Eag.water: "None" or the water bucket
    parameters,  \* Eag.parameters: sequence of parameter rows
    calls,       \* simulate invocations made by the last Eag method called, in order
    last,        \* the last method called on the Eag, with its arguments
    err,         \* exception that left the last Eag method, or "none"
    result,      \* value returned by the last aggregate_fluxes / calculate_chloride_concentration
    eags,        \* Gaf.eags: OrderedDict name -> eag, as a sequence of <<name, object>>
    gafCalls,    \* simulate invocations made by the last Gaf.simulate, in order
    gafLast,     \* the last method called on the Gaf, with its arguments
    gafErr       \* exception that left the last Gaf method, or "none"

vars == <<buckets, water, parameters, calls, last, err, result,
          eags, gafCalls, gafLast, gafErr>>

eagVars == <<buckets, water, parameters, calls, last, err, result>>
gafVars == <<eags, gafCalls, gafLast, gafErr>>

\* Python's None (a record, so that it can be compared with any object)
None == [none |-> TRUE]

\* ------------------------------------------------------------------ bounds

MaxBuckets == 2     \* most buckets held by a unit

\* ---------------------------------------------------------------- helpers

Range(s) == {s[i] : i \in 1..Len(s)}

Min(a, b) == IF a <= b THEN a ELSE b

\* keys of an OrderedDict held as a sequence of records with a key field "id"
Keys(bs) == {bs[i].id : i \in 1..Len(bs)}

\* OrderedDict.__setitem__: an existing key keeps its place and gets the new
\* value, a new key is appended
SetItem(bs, b) ==
    IF b.id \in Keys(bs)
    THEN [i \in 1..Len(bs) |-> IF bs[i].id = b.id THEN b ELSE bs[i]]
    ELSE Append(bs, b)

\* ------------------------------------------------------- input universes

BucketIds == 1..(MaxBuckets + 1)
BucketNames == {"Verhard", "Onverhard", "Drain"}
\* bucket objects: two objects with equal id and different name are different objects
BucketObjects == [id : BucketIds, name : BucketNames]
\* the buckets added one by one to a unit
AddedBuckets == [id : BucketIds, name : {"Verhard", "Onverhard"}]
\* the sets of buckets whose simulate raises: none, or one of them
BadSets == {{}} \cup {{i} : i \in BucketIds}
\* water bucket objects
WaterObjects == {[id |-> 9, area |-> 100], [id |-> 9, area |-> 50]}

\* parameter rows: (Code, LaagVolgorde, Bakjes_ID, Waarde, EAGCode)
Row(code, laag, bak, waarde, eag) ==
    [Code |-> code, LaagVolgorde |-> laag, Bakjes_ID |-> bak, Waarde |-> waarde,
     EAGCode |-> eag, index |-> <<>>]

ParamTables ==
    { << Row("hTarget", 1, 9, 0, "A"), Row("hBottom", 1, 9, -1, "A") >>,
      << Row("RFacIn", 1, 1, 5, "A"), Row("RFacIn", 2, 1, 6, "A"),
         Row("RFacOut", 1, 2, 7, "A"), Row("hTarget", 1, 9, 0, "A") >> }

\* ------------------------------------------------------------ Eag: adding

\* a variant of add_bucket without the test of replace: the entry is always written
AddBucketAlways(bs, b, replace) ==
    [buckets |-> SetItem(bs, b), err |-> "none"]

\* Eag.add_bucket: the new mapping and the exception raised
AddBucketResult(bs, b, replace) ==
    IF b.id \in Keys(bs) /\ replace = FALSE
    THEN [buckets |-> bs, err |-> "KeyError"]
    ELSE [buckets |-> SetItem(bs, b), err |-> "none"]

\* Eag.add_water: the new aggregator and the exception raised
AddWaterResult(w, new, replace) ==
    IF w # None /\ replace = FALSE
    THEN [water |-> w, err |-> "KeyError"]
    ELSE [water |-> new, err |-> "none"]

add_bucket(b, replace) ==
    LET r == AddBucketResult(buckets, b, replace) IN
    /\ Len(r.buckets) <= MaxBuckets
    /\ buckets' = r.buckets
    /\ err' = r.err
    /\ last' = [op |-> "add_bucket", arg |-> b, replace |-> replace]
    /\ calls' = <<>>
    /\ UNCHANGED <<water, parameters, result>>

add_water(w, replace) ==
    LET r == AddWaterResult(water, w, replace) IN
    /\ water' = r.water
    /\ err' = r.err
    /\ last' = [op |-> "add_water", arg |-> w, replace |-> replace]
    /\ calls' = <<>>
    /\ UNCHANGED <<buckets, parameters, result>>

\* ---------------------------------------------------------- Eag: simulate

\* parameters.set_index(Code + "_" + LaagVolgorde, inplace=True)
SetIndex(params) ==
    [i \in 1..Len(params) |->
        [params[i] EXCEPT !.index = <<params[i].Code, "_", params[i].LaagVolgorde>>]]

\* params.loc[params.loc[:, "Bakjes_ID"] == id].loc[:, "Waarde"]
WaardeOf(params, id) ==
    LET own == SelectSeq(params, LAMBDA row : row.Bakjes_ID = id)
    IN  [i \in 1..Len(own) |-> own[i].Waarde]

\* index of the first bucket whose own simulate raises, Len(bs) + 1 when none does
RECURSIVE FirstBad(_, _, _)
FirstBad(bs, bad, i) ==
    IF i > Len(bs) THEN i
    ELSE IF bs[i].id \in bad THEN i
    ELSE FirstBad(bs, bad, i + 1)

\* the for loop of Eag.simulate: the buckets are simulated in the order of the
\* mapping, and an exception of a bucket's simulate leaves the loop
BucketCalls(bs, params, bad) ==
    LET n == FirstBad(bs, bad, 1) IN
    [i \in 1..Min(n, Len(bs)) |->
        [who |-> "bucket", id |-> bs[i].id, params |-> WaardeOf(params, bs[i].id),
         returned |-> (i # n)]]

\* a variant of simulate with the aggregator simulated before the loop
SimulateWaterFirst(bs, w, params, bad, waterBad) ==
    LET loop == BucketCalls(bs, params, bad)
        first == IF w = None THEN <<>>
                 ELSE << [who |-> "water", id |-> w.id,
                          params |-> WaardeOf(params, w.id), returned |-> ~waterBad] >>
    IN  IF w = None THEN [calls |-> <<>>, err |-> "AttributeError"]
        ELSE IF waterBad THEN [calls |-> first, err |-> "BucketError"]
        ELSE [calls |-> first \o loop,
              err |-> IF loop # <<>> /\ ~loop[Len(loop)].returned
                      THEN "BucketError" ELSE "none"]

\* Eag.simulate: the invocations made and the exception that leaves the call.
\* bad is the set of buckets whose simulate raises, waterBad whether the
\* aggregator's does (both are behaviour of the bucket models, which are
\* outside this module).
SimulateResult(bs, w, params, bad, waterBad) ==
    LET loop == BucketCalls(bs, params, bad) IN
    IF loop # <<>> /\ ~loop[Len(loop)].returned
    THEN [calls |-> loop, err |-> "BucketError"]
    ELSE IF w = None
    THEN [calls |-> loop, err |-> "AttributeError"]   \* self.water.id
    ELSE [calls |-> Append(loop, [who |-> "water", id |-> w.id,
                                  params |-> WaardeOf(params, w.id),
                                  returned |-> ~waterBad]),
          err |-> IF waterBad THEN "BucketError" ELSE "none"]

simulate(params, bad, waterBad) ==
    LET r == SimulateResult(buckets, water, SetIndex(params), bad, waterBad) IN
    /\ parameters' = SetIndex(params)
    /\ calls' = r.calls
    /\ err' = r.err
    /\ last' = [op |-> "simulate", arg |-> params, replace |-> FALSE]
    /\ UNCHANGED <<buckets, water, result>>

\* --------------------------------------------------------------- numbers
\* A pandas float is a fraction n/d in lowest terms with d > 0, or one of the
\* three values a division can produce besides: 1/0 is inf, -1/0 is -inf and
\* 0/0 is NaN. The rounding of floating-point arithmetic is not modelled.

Abs(x) == IF x < 0 THEN -x ELSE x

Sign(x) == IF x < 0 THEN -1 ELSE IF x > 0 THEN 1 ELSE 0

RECURSIVE Gcd(_, _)
Gcd(a, b) == IF b = 0 THEN a ELSE Gcd(b, a % b)

Frac(n, d) ==
    IF d = 0 THEN [n |-> Sign(n), d |-> 0]
    ELSE LET g == Gcd(Abs(n), Abs(d))
             sg == Sign(d)
         IN  [n |-> (sg * n) \div g, d |-> (sg * d) \div g]

Num(i) == [n |-> i, d |-> 1]
NaN == [n |-> 0, d |-> 0]
IsFinite(a) == a.d # 0

\* a + b
FAdd(a, b) ==
    IF a.d = 0 /\ b.d = 0
    THEN (IF a.n = b.n THEN a ELSE NaN)                 \* inf + inf, inf - inf, NaN
    ELSE IF a.d = 0 THEN a
    ELSE IF b.d = 0 THEN b
    ELSE LET g == Gcd(a.d, b.d) IN
         Frac(a.n * (b.d \div g) + b.n * (a.d \div g), (a.d \div g) * b.d)

\* a * b: 0 * inf is NaN
FMul(a, b) ==
    IF a.d = 0 \/ b.d = 0 THEN Frac(a.n * b.n, 0)
    ELSE LET g1 == Gcd(Abs(a.n), b.d)
             g2 == Gcd(Abs(b.n), a.d)
         IN  Frac((a.n \div g1) * (b.n \div g2), (a.d \div g2) * (b.d \div g1))

\* a / b without a test of b: x / 0 is inf, -inf or NaN
FDiv(a, b) ==
    IF b.d = 0 /\ a.d = 0 THEN NaN
    ELSE IF b.d = 0 THEN (IF b.n = 0 THEN NaN ELSE Num(0))
    ELSE IF b.n = 0 THEN Frac(a.n, 0)
    ELSE FMul(a, Frac(b.d, b.n))

\* ------------------------------------------------- Eag: aggregate_fluxes

\* str(id) of a bucket id
IdStr == <<"1", "2", "3", "4", "5">>

\* "q_oa_" + str(id), "q_ui_" + str(id)
ColName(prefix, id) == prefix \o IdStr[id]

\* the dict d of aggregate_fluxes, in the order of its keys
DirectKeys == <<"p", "e", "s", "w", "x", "q_out", "q_oa_2">>
DirectNames == <<"neerslag", "verdamping", "kwel", "wegzijging", "inlaat",
                 "uitlaat", "verhard">>

\* the names of the columns of the buckets of bs whose name is in types
ColNames(bs, prefix, types) ==
    LET sel == SelectSeq(bs, LAMBDA b : b.name \in types)
    IN  [i \in 1..Len(sel) |-> ColName(prefix, sel[i].id)]

\* DataFrame.loc[:, names]: a copy with the columns named. A name that is no
\* column raises KeyError in pandas 1.0 and later; earlier versions warn and
\* leave the column out of the sums (a column of NaN). strict tells which.
LocFails(table, names, strict) ==
    strict /\ \E i \in 1..Len(names) : names[i] \notin DOMAIN table

Found(table, names) == SelectSeq(names, LAMBDA c : c \in DOMAIN table)

\* q[q < 0] = 0 ("neg"), q[q > 0] = 0 ("pos") or no assignment ("keep"), on one value
Clamp(mode, x) ==
    IF mode = "neg" /\ x < 0 THEN 0
    ELSE IF mode = "pos" /\ x > 0 THEN 0
    ELSE x

\* q.sum(axis=1) at row t over the columns named, after the assignment
RECURSIVE RowSum(_, _, _, _)
RowSum(table, names, t, mode) ==
    IF names = <<>> THEN 0
    ELSE Clamp(mode, table[Head(names)][t]) + RowSum(table, Tail(names), t, mode)

ColSum(table, names, n, mode) ==
    [t \in 1..n |-> RowSum(table, Found(table, names), t, mode)]

\* a variant in which the q_ui of every bucket enters "uitspoeling"
UitspoelingAllTypes == BucketNames

\* the buckets whose q_ui enters "uitspoeling"
UitspoelingTypes == {"Verhard", "Onverhard"}

\* Eag.aggregate_fluxes: the exception raised, and the table returned
AggregateResult(bs, w, strict) ==
    LET table == w.fluxes
        n == w.index
        verhard == ColNames(bs, "q_oa_", {"Verhard"})
        uitspoel == ColNames(bs, "q_ui_", UitspoelingTypes)
        intrek == ColNames(bs, "q_ui_", BucketNames)
        afstroom == ColNames(bs, "q_oa_", {"Onverhard"})
        direct == [i \in 1..Len(DirectKeys) |->
                     IF DirectKeys[i] \in DOMAIN table
                     THEN table[DirectKeys[i]]
                     ELSE [t \in 1..n |-> NaN]]
        pos(c) == CHOOSE i \in 1..Len(DirectNames) : DirectNames[i] = c
    IN  IF \/ LocFails(table, DirectKeys, strict)
           \/ LocFails(table, verhard, strict)
           \/ LocFails(table, uitspoel, strict)
           \/ LocFails(table, intrek, strict)
           \/ LocFails(table, afstroom, strict)
        THEN [err |-> "KeyError", fluxes |-> None]
        ELSE [err |-> "none",
              fluxes |->
                [c \in Range(DirectNames)
                        \cup {"uitspoeling", "intrek", "afstroming", "drain"} |->
                    CASE c = "verhard" -> ColSum(table, verhard, n, "keep")
                      [] c = "uitspoeling" -> ColSum(table, uitspoel, n, "neg")
                      [] c = "intrek" -> ColSum(table, intrek, n, "pos")
                      [] c = "afstroming" -> ColSum(table, afstroom, n, "keep")
                      [] c = "drain" -> [t \in 1..n |-> 0]
                      [] OTHER -> direct[pos(c)]]]

aggregate_fluxes(strict) ==
    LET r == AggregateResult(buckets, water, strict) IN
    /\ err' = r.err
    /\ result' = r.fluxes
    /\ last' = [op |-> "aggregate_fluxes", arg |-> [strict |-> strict], replace |-> FALSE]
    /\ calls' = <<>>
    /\ UNCHANGED <<buckets, water, parameters>>

\* ------------------------------- Eag: calculate_chloride_concentration

\* C_params
CParamNames == <<"neerslag", "kwel", "verhard", "drain", "uitspoeling",
                 "afstroming", "inlaat">>
CParamValues == <<6, 400, 10, 70, 70, 35, 100>>
C_init == 90

\* self.parameters.loc[self.parameters.loc[:, "Code"] == code, "Waarde"].values
ValuesOf(params, code) ==
    LET rows == SelectSeq(params, LAMBDA row : row.Code = code)
    IN  [i \in 1..Len(rows) |-> rows[i].Waarde]

\* fluxes.loc[t, C_params.index].multiply(C_params).sum()
RECURSIVE MassIn(_, _, _)
MassIn(fluxes, t, i) ==
    IF i > Len(CParamNames) THEN 0
    ELSE fluxes[CParamNames[i]][t] * CParamValues[i] + MassIn(fluxes, t, i + 1)

\* fluxes.loc[:, ["intrek", "uitlaat", "wegzijging"]].sum(axis=1) at t
VOut(fluxes, t) == fluxes["intrek"][t] + fluxes["uitlaat"][t] + fluxes["wegzijging"][t]

\* the loop over fluxes.index, from step t on: M and C_out are the values the
\* step before left, Mass the series filled so far
RECURSIVE MassLoop(_, _, _, _, _, _)
MassLoop(fluxes, storage, t, M, C_out, Mass) ==
    IF t > Len(storage) THEN Mass
    ELSE LET M_in == Num(MassIn(fluxes, t, 1))
             M_out == FMul(Num(VOut(fluxes, t)), C_out)
             M1 == FAdd(FAdd(M, M_in), M_out)
         IN  MassLoop(fluxes, storage, t + 1, M1, FDiv(M1, Num(storage[t])),
                      Append(Mass, M1))

\* Eag.calculate_chloride_concentration: the exception raised, the series C
\* returned and the series Mass it was computed from
ChlorideResult(bs, w, params, strict) ==
    LET agg == AggregateResult(bs, w, strict)
        hT == ValuesOf(params, "hTarget")
        hB == ValuesOf(params, "hBottom")
    IN  IF agg.err # "none" THEN [err |-> agg.err, C |-> None, Mass |-> None]
        ELSE IF hT = <<>> \/ hB = <<>>                              \* .values[0]
        THEN [err |-> "IndexError", C |-> None, Mass |-> None]
        ELSE LET V_init == (hT[1] - hB[1]) * w.area
                 Mass == MassLoop(agg.fluxes, w.storage, 1, Num(C_init * V_init),
                                  Num(C_init), <<>>)
             IN  [err |-> "none",
                  C |-> [t \in 1..Len(Mass) |-> FDiv(Mass[t], Num(w.storage[t]))],
                  Mass |-> Mass]

calculate_chloride_concentration(strict) ==
    LET r == ChlorideResult(buckets, water, parameters, strict) IN
    /\ err' = r.err
    /\ result' = [C |-> r.C, Mass |-> r.Mass]
    /\ last' = [op |-> "calculate_chloride_concentration", arg |-> [strict |-> strict],
                replace |-> FALSE]
    /\ calls' = <<>>
    /\ UNCHANGED <<buckets, water, parameters>>

\* ------------------------------------------------------------------- Gaf

MaxEags == 2        \* most units held by a region

AllNames == <<"A", "B", "C", "D">>
UnitNames == {AllNames[i] : i \in 1..MaxEags}

\* the methods the class Eag defines (src/waterbalans/eag.py)
EagMethods ==
    {"__init__", "add_bucket", "add_water", "load_series_from_gaf",
     "get_init_parameters", "simulate", "aggregate_fluxes",
     "calculate_chloride_concentration", "calculate_fractions"}

\* The objects handed to a Gaf: instances of Eag (two of them may bear the same
\* name), and objects of another class that has a name and offers
\* get_series_from_gaf and simulate.
GafObjects ==
    [class : {"Eag"}, name : UnitNames, nr : {1, 2}]
        \cup [class : {"Stub"}, name : UnitNames, nr : {1}]

IsInstanceEag(e) == e.class = "Eag"

HasMethod(e, m) ==
    IF e.class = "Eag" THEN m \in EagMethods
    ELSE m \in {"get_series_from_gaf", "simulate"}

\* Gaf.__init__: the loop over the eags argument
RECURSIVE GafInitEags(_, _)
GafInitEags(es, list) ==
    IF list = <<>> THEN es
    ELSE LET e == Head(list) IN
         IF IsInstanceEag(e)
         THEN GafInitEags(SetItem(es, [id |-> e.name, value |-> e]), Tail(list))
         ELSE GafInitEags(es, Tail(list))     \* only a warning is printed

\* Gaf.add_eag
AddEagResult(es, eag) == SetItem(es, [id |-> eag.name, value |-> eag])

add_eag(eag) ==
    /\ Len(AddEagResult(eags, eag)) <= MaxEags
    /\ eags' = AddEagResult(eags, eag)
    /\ gafErr' = "none"
    /\ gafCalls' = <<>>
    /\ gafLast' = [op |-> "add_eag", arg |-> eag, replace |-> FALSE]

\* parameters.loc[parameters.EAGCode == eagname, :]
RowsOfUnit(params, eagname) == SelectSeq(params, LAMBDA row : row.EAGCode = eagname)

\* Gaf.simulate: the loop over self.eags.items(), from entry i on. bad is the
\* set of units whose own simulate raises.
RECURSIVE GafSimulateFrom(_, _, _, _, _)
GafSimulateFrom(es, i, params, bad, done) ==
    IF i > Len(es) THEN [calls |-> done, err |-> "none"]
    ELSE LET eagname == es[i].id
             eag == es[i].value
         IN  IF ~HasMethod(eag, "get_series_from_gaf")
             THEN [calls |-> done, err |-> "AttributeError"]
             ELSE LET call == [name |-> eagname, unit |-> eag,
                               params |-> RowsOfUnit(params, eagname),
                               returned |-> eagname \notin bad]
                  IN  IF eagname \in bad
                      THEN [calls |-> Append(done, call), err |-> "UnitError"]
                      ELSE GafSimulateFrom(es, i + 1, params, bad, Append(done, call))

gaf_simulate(params, bad) ==
    LET r == GafSimulateFrom(eags, 1, params, bad, <<>>) IN
    /\ gafCalls' = r.calls
    /\ gafErr' = r.err
    /\ gafLast' = [op |-> "simulate", arg |-> params, replace |-> FALSE]
    /\ UNCHANGED eags

\* region-level parameter tables
GafParamTables ==
    { << Row("hTarget", 1, 9, 0, "A"), Row("hTarget", 1, 9, 2, "B"),
         Row("hBottom", 1, 9, -1, "A") >>,
      << Row("hBottom", 1, 9, -3, "B") >> }

GafBadSets == {{}} \cup {{n} : n \in UnitNames}

\* ---------------------------------------------------------- specifications

NoOp == [op |-> "none", arg |-> None, replace |-> FALSE]

\* the Gaf part while the Eag is exercised
GafIdle ==
    /\ eags = <<>>
    /\ gafCalls = <<>>
    /\ gafLast = NoOp
    /\ gafErr = "none"

\* Eag.__init__
EagInit ==
    /\ buckets = <<>>
    /\ water = None
    /\ parameters = <<>>
    /\ calls = <<>>
    /\ last = NoOp
    /\ err = "none"
    /\ result = None

Init == EagInit /\ GafIdle

Next ==
    \/ \E b \in AddedBuckets, replace \in BOOLEAN :
          add_bucket(b, replace) /\ UNCHANGED gafVars
    \/ \E w \in WaterObjects, replace \in BOOLEAN :
          add_water(w, replace) /\ UNCHANGED gafVars
    \/ \E params \in ParamTables, bad \in BadSets, waterBad \in BOOLEAN :
          simulate(params, bad, waterBad) /\ UNCHANGED gafVars

\* a unit: construction, add_bucket, add_water, simulate
Spec == Init /\ [][Next]_vars

\* Gaf.__init__ on a list of at most MaxEags objects
GafInit ==
    /\ EagInit
    /\ \E n \in 0..MaxEags : \E list \in [1..n -> GafObjects] :
          eags = GafInitEags(<<>>, list)
    /\ gafCalls = <<>>
    /\ gafLast = NoOp
    /\ gafErr = "none"

GafNext ==
    \/ \E eag \in GafObjects : add_eag(eag) /\ UNCHANGED eagVars
    \/ \E params \in GafParamTables, bad \in GafBadSets :
          gaf_simulate(params, bad) /\ UNCHANGED eagVars

\* a region: construction, add_eag, simulate
SpecGaf == GafInit /\ [][GafNext]_vars

\* --------------------------------------- units that have been simulated

NT == 2             \* length of the time index

RECURSIVE Sorted(_)
Sorted(ids) ==
    IF ids = {} THEN <<>>
    ELSE LET m == CHOOSE i \in ids : \A j \in ids : i <= j
         IN  <<m>> \o Sorted(ids \ {m})

\* The flux table of an aggregator: the six direct columns and, for every
\* bucket of ids, its q_oa and q_ui column.
FluxTable(ids, direct, q_oa, q_ui) ==
    [c \in DOMAIN direct \cup {ColName("q_oa_", i) : i \in ids}
                         \cup {ColName("q_ui_", i) : i \in ids} |->
        IF c \in DOMAIN direct THEN direct[c]
        ELSE IF \E i \in ids : c = ColName("q_oa_", i)
        THEN q_oa[CHOOSE i \in ids : c = ColName("q_oa_", i)]
        ELSE q_ui[CHOOSE i \in ids : c = ColName("q_ui_", i)]]

Const(n, v) == [t \in 1..n |-> v]

StdParams == SetIndex(<< Row("hTarget", 1, 9, 0, "A"), Row("hBottom", 1, 9, -1, "A") >>)

\* The vertical exchange q_ui of a bucket: downward (-1), none (0) or upward
\* (2) at the first step, and the next of these three at every further step.
QUi == <<-1, 0, 2>>
QUiSeries == {[t \in 1..NT |-> QUi[((k + t) % 3) + 1]] : k \in 0..2}

\* Units with any buckets (of any ids and names), over an index of NT steps.
AggUnits ==
    /\ \E ids \in {x \in SUBSET BucketIds : Cardinality(x) <= MaxBuckets} :
       \E names \in [ids -> BucketNames], q_ui \in [ids -> QUiSeries] :
          /\ buckets = [k \in 1..Cardinality(ids) |->
                          [id |-> Sorted(ids)[k], name |-> names[Sorted(ids)[k]]]]
          /\ water =
               [id |-> 9, area |-> 100, index |-> NT,
                storage |-> Const(NT, 100),
                fluxes |->
                  FluxTable(ids,
                            [p |-> Const(NT, 10), e |-> Const(NT, -2),
                             s |-> Const(NT, 1), w |-> Const(NT, -1),
                             x |-> Const(NT, 4), q_out |-> Const(NT, -5)],
                            [i \in ids |-> [t \in 1..NT |-> i + t]],
                            q_ui)]
    /\ parameters = StdParams

\* parameter tables without, with one and with two rows of hTarget and hBottom
ChlParamTables ==
    { StdParams,
      SetIndex(<< Row("hBottom", 1, 9, -1, "A") >>),
      SetIndex(<< Row("hTarget", 1, 9, 0, "A") >>),
      SetIndex(<< Row("hTarget", 1, 9, 0, "A"), Row("hTarget", 2, 9, 3, "A"),
                  Row("hBottom", 1, 9, -1, "A") >>),
      SetIndex(<< Row("hTarget", 1, 9, 0, "A"), Row("hBottom", 1, 9, -1, "A"),
                  Row("hBottom", 2, 9, -2, "A") >>) }

\* values of the storage of the aggregator
StorageValues == {0, 100, 110}

\* Units of a paved bucket 1 and, or not, an unpaved bucket 2, with an
\* aggregator of area 100, over an index of NT steps: precipitation, outtake
\* and storage vary with time, seepage and the buckets' fluxes are zero or not.
ChlUnits ==
    /\ \E ids \in {{1, 2}, {1}}, active \in {0, 1}, kwel \in {0, 1} :
       \E p \in [1..NT -> {0, 10}], q_out \in [1..NT -> {0, -5}],
          storage \in [1..NT -> StorageValues] :
          /\ buckets = [k \in 1..Cardinality(ids) |->
                          [id |-> k, name |-> IF k = 1 THEN "Verhard" ELSE "Onverhard"]]
          /\ water =
               [id |-> 9, area |-> 100, index |-> NT, storage |-> storage,
                fluxes |->
                  FluxTable(ids,
                            [p |-> p, e |-> Const(NT, 0), s |-> Const(NT, kwel),
                             w |-> Const(NT, 0), x |-> Const(NT, 0), q_out |-> q_out],
                            [i \in ids |-> Const(NT, active * i)],
                            [i \in ids |-> Const(NT, active * (2 * i - 3))])]
    /\ \E params \in ChlParamTables : parameters = params

Simulated ==
    /\ calls = <<>>
    /\ last = NoOp
    /\ err = "none"
    /\ result = None
    /\ GafIdle

AggInit == AggUnits /\ Simulated

AggNext == \E strict \in BOOLEAN : aggregate_fluxes(strict) /\ UNCHANGED gafVars

\* a simulated unit with any buckets: aggregate_fluxes
SpecAgg == AggInit /\ [][AggNext]_vars

ChlInit == ChlUnits /\ Simulated

ChlNext ==
    \/ \E strict \in BOOLEAN : aggregate_fluxes(strict) /\ UNCHANGED gafVars
    \/ \E strict \in BOOLEAN :
          calculate_chloride_concentration(strict) /\ UNCHANGED gafVars

\* a simulated unit: aggregate_fluxes, calculate_chloride_concentration
SpecChl == ChlInit /\ [][ChlNext]_vars

\* ------------------------------------------------------------------ claims

UniqueIds(bs) == \A i, j \in 1..Len(bs) : bs[i].id = bs[j].id => i = j

\* C1: Eag.simulate on a unit without aggregator fails before any bucket's
\* simulate has been invoked.
C1_AbortsBeforeAnyBucket ==
    (last.op = "simulate" /\ water = None) => (err # "none" /\ calls = <<>>)

\* What the code does on a unit without aggregator: every bucket is simulated
\* (up to the first one that raises), and only then the call fails.
C1_FailsAfterTheBuckets ==
    (last.op = "simulate" /\ water = None) =>
        /\ err \in {"AttributeError", "BucketError"}
        /\ err = "AttributeError" =>
              /\ Len(calls) = Len(buckets)
              /\ \A i \in 1..Len(calls) : calls[i].who = "bucket" /\ calls[i].returned

\* C2: in a run of Eag.simulate on a unit with an aggregator, the aggregator's
\* simulate is invoked at most once and only after every bucket's simulate has
\* been invoked once, in the order of the mapping, and has returned; when no
\* simulate raises, all of them are invoked; an invocation that raises is the
\* last one of the run.
C2_AggregatorLast ==
    (last.op = "simulate" /\ water # None) =>
        /\ \A i \in 1..Len(calls) :
              /\ calls[i].who = "bucket" =>
                    i <= Len(buckets) /\ calls[i].id = buckets[i].id
              /\ calls[i].who = "water" =>
                    /\ i = Len(buckets) + 1
                    /\ i = Len(calls)
                    /\ calls[i].id = water.id
                    /\ \A j \in 1..Len(buckets) :
                          /\ calls[j].who = "bucket"
                          /\ calls[j].id = buckets[j].id
                          /\ calls[j].returned
              /\ ~calls[i].returned => i = Len(calls) /\ err # "none"
        /\ (\A i \in 1..Len(calls) : calls[i].returned) =>
              /\ Len(calls) = Len(buckets) + 1
              /\ calls[Len(calls)].who = "water"
              /\ err = "none"

C2_Witness ==
    /\ last.op = "simulate"
    /\ water # None
    /\ Len(buckets) = 2
    /\ Len(calls) = 3
    /\ err = "none"

\* a run that a bucket's failure aborts
C2_WitnessAbort ==
    /\ last.op = "simulate"
    /\ water # None
    /\ Len(buckets) = 2
    /\ Len(calls) = 1
    /\ err = "BucketError"

\* C3: add_bucket with an identity already in the mapping and replace=False
\* raises and leaves the mapping unchanged, with replace=True the new object
\* takes the place of the old one; add_water with an aggregator already set
\* and replace=False raises and leaves the aggregator unchanged, with
\* replace=True the new aggregator takes the place of the old one; the unit
\* holds at most one bucket per identity.
C3_NoOverwriteWithoutReplace ==
    [][ /\ UniqueIds(buckets')
        /\ (last'.op = "add_bucket" /\ last'.arg.id \in Keys(buckets)) =>
              IF last'.replace
              THEN /\ err' = "none"
                   /\ Len(buckets') = Len(buckets)
                   /\ \A i \in 1..Len(buckets) :
                         buckets'[i] = IF buckets[i].id = last'.arg.id
                                       THEN last'.arg ELSE buckets[i]
              ELSE err' = "KeyError" /\ buckets' = buckets
        /\ (last'.op = "add_water" /\ water # None) =>
              IF last'.replace
              THEN err' = "none" /\ water' = last'.arg
              ELSE err' = "KeyError" /\ water' = water
      ]_vars

C3_Witness ==
    /\ last.op = "add_bucket"
    /\ err = "KeyError"
    /\ last.arg.id \in Keys(buckets)
    /\ water # None

\* C7: Gaf.simulate invokes the simulate of every unit of the region once, in
\* the order of the mapping, with exactly the rows of the region's table whose
\* EAGCode is the unit's name (runs that a unit's own simulate aborts aside).
C7_EveryUnitItsOwnRows ==
    (gafLast.op = "simulate" /\ gafErr # "UnitError") =>
        /\ Len(gafCalls) = Len(eags)
        /\ \A i \in 1..Len(gafCalls) :
              /\ gafCalls[i].name = eags[i].id
              /\ \A k \in 1..Len(gafLast.arg) :
                    gafLast.arg[k].EAGCode = eags[i].id
                        <=> gafLast.arg[k] \in Range(gafCalls[i].params)

\* C8: the mapping of a region holds only instances of Eag, and add_eag with a
\* name that is already a key does not silently replace the unit stored there.
C8_OnlyEagsNoSilentReplace ==
    [][ /\ \A i \in 1..Len(eags') : eags'[i].value.class = "Eag"
        /\ (gafLast'.op = "add_eag" /\ gafLast'.arg.name \in Keys(eags)) =>
              (gafErr' # "none" \/ eags' = eags)
      ]_vars

\* --------------------------------------------- claims on aggregate_fluxes

\* the sum of the values of a function with a finite domain
RECURSIVE SumOver(_)
SumOver(f) ==
    IF DOMAIN f = {} THEN 0
    ELSE LET i == CHOOSE j \in DOMAIN f : TRUE
         IN  f[i] + SumOver([j \in DOMAIN f \ {i} |-> f[j]])

Pos(x) == IF x > 0 THEN x ELSE 0
Neg(x) == IF x < 0 THEN x ELSE 0

SemanticColumns ==
    {"neerslag", "verdamping", "kwel", "wegzijging", "inlaat", "uitlaat",
     "verhard", "uitspoeling", "intrek", "afstroming", "drain"}

\* the buckets of the unit that bear one of the names
Named(names) == {i \in 1..Len(buckets) : buckets[i].name \in names}

\* vertical exchange and outflow to the water of the i-th bucket at step t
Qui(i, t) == water.fluxes[ColName("q_ui_", buckets[i].id)][t]
Qoa(i, t) == water.fluxes[ColName("q_oa_", buckets[i].id)][t]

\* C6: aggregate_fluxes succeeds on any unit whose aggregator holds the direct
\* columns and the columns of the unit's buckets; the result has exactly the
\* semantic columns on the aggregator's index, paved-runoff is zero without a
\* paved bucket, surface-runoff without an unpaved one, leaching without both.
C6_AggregateSucceeds ==
    last.op = "aggregate_fluxes" =>
        /\ err = "none"
        /\ DOMAIN result = SemanticColumns
        /\ \A c \in SemanticColumns : Len(result[c]) = water.index
        /\ \A t \in 1..water.index :
              /\ Named({"Verhard"}) = {} => result["verhard"][t] = 0
              /\ Named({"Onverhard"}) = {} => result["afstroming"][t] = 0
              /\ Named({"Verhard", "Onverhard"}) = {} => result["uitspoeling"][t] = 0

\* What the code does: the call succeeds whenever the aggregator has a column
\* q_oa_2, or pandas is a version that tolerates a missing label; the result
\* is then as C6 says, each sum being over the buckets of the unit.
C6_SucceedsWithColumnOfBucket2 ==
    last.op = "aggregate_fluxes" =>
        /\ err = "none" <=> (2 \in Keys(buckets) \/ ~last.arg.strict)
        /\ err = "none" =>
              /\ DOMAIN result = SemanticColumns
              /\ \A c \in SemanticColumns : Len(result[c]) = water.index
              /\ \A t \in 1..water.index :
                    /\ result["verhard"][t] =
                          SumOver([i \in Named({"Verhard"}) |-> Qoa(i, t)])
                    /\ result["afstroming"][t] =
                          SumOver([i \in Named({"Onverhard"}) |-> Qoa(i, t)])
                    /\ result["drain"][t] = 0
                    /\ result["neerslag"][t] = water.fluxes["p"][t]
                    /\ result["uitlaat"][t] = water.fluxes["q_out"][t]

\* the parts of C9 on which the claim and the code agree
C9_Sums(t) ==
    /\ result["uitspoeling"][t] =
          SumOver([i \in Named({"Verhard", "Onverhard"}) |-> Pos(Qui(i, t))])
    /\ result["intrek"][t] = SumOver([i \in Named(BucketNames) |-> Neg(Qui(i, t))])
    /\ result["uitspoeling"][t] >= 0
    /\ result["intrek"][t] <= 0

\* C9 as stated: leaching is the sum of the positive vertical exchange of the
\* paved and unpaved buckets, infiltration the sum of the negative vertical
\* exchange of all buckets, and leaching - infiltration is the sum over all
\* buckets of the magnitude of their vertical exchange.
C9_TotalMagnitude ==
    (last.op = "aggregate_fluxes" /\ err = "none") =>
        \A t \in 1..water.index :
            /\ C9_Sums(t)
            /\ result["uitspoeling"][t] - result["intrek"][t] =
                  SumOver([i \in Named(BucketNames) |-> Abs(Qui(i, t))])

\* C9 as amended: leaching - infiltration is the sum over all buckets of the
\* magnitude of their vertical exchange less the positive vertical exchange of
\* the buckets that are neither paved nor unpaved, which enters no column.
C9_MagnitudeLessOtherLeaching ==
    (last.op = "aggregate_fluxes" /\ err = "none") =>
        \A t \in 1..water.index :
            /\ C9_Sums(t)
            /\ result["uitspoeling"][t] - result["intrek"][t] =
                  SumOver([i \in Named(BucketNames) |-> Abs(Qui(i, t))])
                  - SumOver([i \in Named(BucketNames \ {"Verhard", "Onverhard"}) |->
                               Pos(Qui(i, t))])

\* a drain with upward exchange beside a bucket with downward exchange
C9_Witness ==
    /\ last.op = "aggregate_fluxes"
    /\ err = "none"
    /\ \E i, j \in 1..Len(buckets) :
          /\ buckets[i].name = "Drain"
          /\ buckets[j].name = "Verhard"
          /\ Qui(i, 1) > 0
          /\ Qui(j, 1) < 0

\* ------------------------- claims on calculate_chloride_concentration

Chloride == "calculate_chloride_concentration"

RowsWithCode(code) == {i \in 1..Len(parameters) : parameters[i].Code = code}

\* C4: calculate_chloride_concentration raises when the storage is zero at a
\* step of the index, and returns no series with an infinite or NaN value.
C4_ZeroStorageRaises ==
    last.op = Chloride =>
        /\ (\E t \in 1..water.index : water.storage[t] = 0) => err # "none"
        /\ err = "none" =>
              \A t \in 1..water.index :
                  IsFinite(result.C[t]) /\ IsFinite(result.Mass[t])

\* What the code does: a zero storage raises nothing; the concentration of
\* that step is inf, -inf or NaN, and so is the mass of every later step.
C4_ZeroStoragePoisons ==
    (last.op = Chloride /\ err = "none") =>
        \A t \in 1..water.index :
            /\ water.storage[t] = 0 => ~IsFinite(result.C[t])
            /\ (\E u \in 1..(t - 1) : water.storage[u] = 0) => ~IsFinite(result.Mass[t])
            /\ (\A u \in 1..t : water.storage[u] # 0) =>
                  IsFinite(result.C[t]) /\ IsFinite(result.Mass[t])

\* C5: calculate_chloride_concentration raises unless the parameter table has
\* exactly one row of code "hTarget" and exactly one of code "hBottom".
C5_AmbiguousParameterRaises ==
    last.op = Chloride =>
        ((Cardinality(RowsWithCode("hTarget")) # 1
            \/ Cardinality(RowsWithCode("hBottom")) # 1) => err # "none")

\* What the code does: it raises (IndexError) only when a code has no row; of
\* several rows of a code the first is taken.
C5_OnlyAbsentParameterRaises ==
    (last.op = Chloride /\ (2 \in Keys(buckets) \/ ~last.arg.strict)) =>
        (err # "none" <=> (RowsWithCode("hTarget") = {} \/ RowsWithCode("hBottom") = {}))

\* the table aggregate_fluxes returns for the unit
Aggregated == AggregateResult(buckets, water, FALSE).fluxes

\* mass entering at step t with the source concentrations
SourceMass(t) ==
    6 * Aggregated["neerslag"][t] + 400 * Aggregated["kwel"][t]
    + 10 * Aggregated["verhard"][t] + 70 * Aggregated["drain"][t]
    + 70 * Aggregated["uitspoeling"][t] + 35 * Aggregated["afstroming"][t]
    + 100 * Aggregated["inlaat"][t]

OutgoingVolume(t) ==
    Aggregated["intrek"][t] + Aggregated["uitlaat"][t] + Aggregated["wegzijging"][t]

FirstValue(code) ==
    parameters[CHOOSE i \in RowsWithCode(code) : \A j \in RowsWithCode(code) : i <= j].Waarde

InitialMass == 90 * (FirstValue("hTarget") - FirstValue("hBottom")) * water.area

\* the recurrence of C10 at step t
MassStep(t) ==
    LET before == IF t = 1 THEN Num(InitialMass) ELSE result.Mass[t - 1]
        conc == IF t = 1 THEN Num(90)
                ELSE FDiv(result.Mass[t - 1], Num(water.storage[t - 1]))
    IN  result.Mass[t] =
            FAdd(FAdd(before, Num(SourceMass(t))), FMul(Num(OutgoingVolume(t)), conc))

NothingFlows == \A t \in 1..water.index : SourceMass(t) = 0 /\ OutgoingVolume(t) = 0

\* hTarget = 0, hBottom = -1, area 100, and at the first step a precipitation
\* of 10 and nothing else
RainAtFirstStep ==
    /\ FirstValue("hTarget") = 0
    /\ FirstValue("hBottom") = -1
    /\ water.area = 100
    /\ Aggregated["neerslag"][1] = 10
    /\ SourceMass(1) = 60
    /\ OutgoingVolume(1) = 0

\* C10: the mass follows the recurrence at every step (where the storage of
\* the step before is not zero, so that its concentration is a number); when
\* nothing flows at any step the mass is the initial mass at every step; with
\* a precipitation of 10 at the first step the mass of that step is 9060.
C10_MassRecurrence ==
    (last.op = Chloride /\ err = "none") =>
        /\ \A t \in 1..water.index :
              (t = 1 \/ water.storage[t - 1] # 0) => MassStep(t)
        /\ NothingFlows => \A t \in 1..water.index : result.Mass[t] = Num(InitialMass)
        /\ RainAtFirstStep => result.Mass[1] = Num(9060)

\* What the code does: the same, as long as no storage is zero; after a step
\* of zero storage the mass is NaN even when nothing flows (0 * inf).
C10_RecurrenceWhileStorageNonzero ==
    (last.op = Chloride /\ err = "none") =>
        /\ \A t \in 1..water.index : MassStep(t)
        /\ RainAtFirstStep => result.Mass[1] = Num(9060)
        /\ NothingFlows =>
              \A t \in 1..water.index :
                  result.Mass[t] = IF \E u \in 1..(t - 1) : water.storage[u] = 0
                                   THEN NaN ELSE Num(InitialMass)

====
